---- MODULE Spec2Model ----
(***************************************************************************)
(* Model of src/main.cpp: the height-field query getTerrainHeight, the     *)
(* mesh generators generateCone / generateCylinder, and the per-frame      *)
(* simulation of falling parcels and targets in main().                    *)
(*                                                                         *)
(* Units.  The program computes in float; the model computes in exact      *)
(* fixed point.  Lengths are in tenths of a world unit (0.5f is 5, 2.5f is *)
(* 25, 100.0f is 1000).  A tick duration dt is a whole number of           *)
(* half-seconds, so that velocity * dt = (0, -9.8, 0) * 0.5 * dt is the    *)
(* whole number of tenths (0, -49, 0) * dt.  Red-channel values of the     *)
(* height map are multiples of 51, for which (r / 255) * 10 is a whole     *)
(* number of units.  distance(a, b) < r is compared as                     *)
(* |a - b|^2 < r^2, which is the same test for r >= 0.                     *)
(***************************************************************************)
EXTENDS Integers, Sequences, FiniteSets, TLC

VARIABLES
    heightMap,    \* sf::Image heightMapImage: [w, h, px] (px: red channel, row-major)
    targets,      \* std::vector<Target>: sequence of [position, radius, active]
    parcels,      \* std::vector<Parcel>: sequence of [position, velocity, radius, active]
    fate,         \* per parcel, the branch that ended it: "falling", "landed", "hit"
    score,        \* int score
    airshipPos,   \* vec3 airshipPos
    crashed,      \* the process died in an out-of-bounds pixel read
    alt,          \* the same world, its parcels iterated in another order
    query,        \* the last getTerrainHeight call and what it returned
    mesh          \* the last generated Mesh

vars == <<heightMap, targets, parcels, fate, score, airshipPos, crashed, alt, query, mesh>>

----------------------------------------------------------------------------
(* Bounds of the model *)

MaxParcels == 2         \* parcels spawned in a run
MaxDt == 2              \* longest tick, in half-seconds
MaxSpawnPerFrame == 1   \* P key presses polled in one frame
MaxKeysDown == 1        \* movement keys held during one frame
AirshipReach == 1       \* airship stays within this many speed steps of its start (x axis)
QueryMargin == 1        \* sampled coordinates within this distance of the footprint edge
MaxSegments == 6        \* largest segment count handed to a generator
MaxSize == 3            \* largest radius / height handed to a generator
MaxGrid == 3

----------------------------------------------------------------------------
(* vec3 *)

Vec(x, y, z) == [x |-> x, y |-> y, z |-> z]

VecAdd(a, b) == Vec(a.x + b.x, a.y + b.y, a.z + b.z)

VecScale(a, k) == Vec(a.x * k, a.y * k, a.z * k)

\* distance(a, b)^2
DistanceSq(a, b) ==
    (a.x - b.x) * (a.x - b.x) + (a.y - b.y) * (a.y - b.y) + (a.z - b.z) * (a.z - b.z)

----------------------------------------------------------------------------
(* Height field *)

TerrainScale == 2           \* float terrainScale = 2.0f
TerrainHeightScale == 100   \* float terrainHeightScale = 10.0f, in tenths

EmptyImage == [w |-> 0, h |-> 0, px |-> <<>>]     \* loadFromFile failed
FlatImage  == [w |-> 2, h |-> 2, px |-> <<0, 0, 0, 0>>]
HillsImage == [w |-> 2, h |-> 2, px |-> <<0, 51, 102, 255>>]

\* The images a run can have loaded.
ImageChoices == <<HillsImage, FlatImage, EmptyImage>>

Images == {ImageChoices[k] : k \in DOMAIN ImageChoices}

\* What a read outside the pixel buffer can give back when it does not fault.
GarbageReds == {0, 255}

\* mapSize and halfSize of getTerrainHeight
MapSize(terrainScale) == 1000 * terrainScale
HalfSize(terrainScale) == MapSize(terrainScale) \div 2

\* The early return with the two worldZ comparisons left out.
OutsideXOnly(worldX, worldZ, halfSize) == worldX < -halfSize \/ worldX > halfSize

\* The early return of getTerrainHeight: strictly outside the footprint.
Outside(worldX, worldZ, halfSize) ==
    worldX < -halfSize \/ worldX > halfSize \/ worldZ < -halfSize \/ worldZ > halfSize

\* if (x >= size) x = size - 1;  on unsigned int.  For size = 0 the result is
\* 2^32 - 1; TLC's integers are 32-bit signed, so that value is written -1
\* here and InImage treats it as the index beyond every size that it is.
ClampIndex(i, size) == IF i >= size THEN size - 1 ELSE i

\* (unsigned int)(u * size) with u = (world + halfSize) / mapSize
PixelIndex(world, size, terrainScale) ==
    ClampIndex(((world + HalfSize(terrainScale)) * size) \div MapSize(terrainScale), size)

InImage(x, y, img) == 0 <= x /\ x < img.w /\ 0 <= y /\ y < img.h

\* sf::Image::getPixel(x, y).r : m_pixels[(x + y * m_size.x) * 4]
GetPixelRed(img, x, y) == img.px[(x + y * img.w) + 1]

\* (c.r / 255.0f) * terrainHeightScale
ScaledHeight(red, terrainHeightScale) == (red * terrainHeightScale) \div 255

\* getTerrainHeight: the set of outcomes of one call.  An outcome is
\* [crash, oob, h]: whether the call faulted, whether it read outside the
\* image, and the elevation returned.
getTerrainHeight(worldX, worldZ, img, terrainScale, terrainHeightScale) ==
    IF Outside(worldX, worldZ, HalfSize(terrainScale))
    THEN {[crash |-> FALSE, oob |-> FALSE, h |-> 0]}
    ELSE LET x == PixelIndex(worldX, img.w, terrainScale)
             y == PixelIndex(worldZ, img.h, terrainScale)
         IN  IF InImage(x, y, img)
             THEN {[crash |-> FALSE, oob |-> FALSE,
                    h |-> ScaledHeight(GetPixelRed(img, x, y), terrainHeightScale)]}
             ELSE {[crash |-> TRUE, oob |-> TRUE, h |-> 0]}
                  \cup {[crash |-> FALSE, oob |-> TRUE,
                         h |-> ScaledHeight(g, terrainHeightScale)] : g \in GarbageReds}

----------------------------------------------------------------------------
(* Entities *)

ParcelRadius == 5     \* float radius = 0.5f
TargetRadius == 25    \* float radius = 2.5f
NumTargets == 5       \* for (int i = 0; i < 5; ++i)
AirshipSpeed == 75    \* float speed = 15.0f, per half-second

\* vec3 velocity = vec3(0, -9.8f, 0), per half-second
Gravity == Vec(0, -49, 0)

\* struct Parcel with its default member initialisers
NewParcel(pos) ==
    [position |-> pos, velocity |-> Gravity, radius |-> ParcelRadius, active |-> TRUE]

\* struct Target with its default member initialisers
NewTarget(pos) == [position |-> pos, radius |-> TargetRadius, active |-> TRUE]

\* vec3 airshipPos(0.0f, 30.0f, 0.0f)
AirshipStart == Vec(0, 300, 0)

\* p.position = airshipPos + vec3(0, -4.0f, 0)
SpawnPosition(airship) == VecAdd(airship, Vec(0, -40, 0))

----------------------------------------------------------------------------
(* The physics step: for (auto& p : parcels) { ... } *)

\* A world is what the step reads and writes.
World(ps, ts, ft, sc, cr) ==
    [parcels |-> ps, targets |-> ts, fate |-> ft, score |-> sc, crashed |-> cr]

\* The integration with a velocity of zero: the parcel stays where it is.
IntegrateStill(p, dt) == VecAdd(p.position, VecScale(Vec(0, 0, 0), dt))

\* p.position += p.velocity * dt
Integrate(p, dt) == VecAdd(p.position, VecScale(p.velocity, dt))

\* The ground test with < for <=.
TouchesGroundStrict(y, terrainH) == y < terrainH

\* if (p.position.y <= terrainH)
TouchesGround(y, terrainH) == y <= terrainH

\* distance(p.position, t.position) < p.radius + t.radius
InHitRange(pos, radius, t) ==
    DistanceSq(pos, t.position) < (radius + t.radius) * (radius + t.radius)

\* The target loop without its skip of inactive targets.
TestableAlways(t) == TRUE

\* if (!t.active) continue;
Testable(t) == t.active

\* The targets the inner loop would accept for a parcel at pos.
Candidates(pos, radius, ts) ==
    {j \in DOMAIN ts : Testable(ts[j]) /\ InHitRange(pos, radius, ts[j])}

\* The target loop without its break: the last accepted target wins.
LastMatch(pos, radius, ts) ==
    LET c == {j \in DOMAIN ts : ts[j].active /\ InHitRange(pos, radius, ts[j])}
    IN  IF c = {} THEN 0 ELSE CHOOSE j \in c : \A k \in c : j >= k

\* for (auto& t : targets) ... break;  the first accepted target, 0 if none
FirstMatch(pos, radius, ts) ==
    LET c == Candidates(pos, radius, ts)
    IN  IF c = {} THEN 0 ELSE CHOOSE j \in c : \A k \in c : j <= k

\* The loop body with the hit test made before the ground test.
UpdateParcelHitFirst(w, i, dt, o) ==
    LET p   == w.parcels[i]
        pos == Integrate(p, dt)
        j   == FirstMatch(pos, p.radius, w.targets)
    IN  IF o.crash
        THEN [w EXCEPT !.parcels[i].position = pos, !.crashed = TRUE]
        ELSE IF j # 0
        THEN [w EXCEPT !.parcels[i].position = pos,
                       !.parcels[i].active = FALSE,
                       !.fate[i] = "hit",
                       !.targets[j].active = FALSE,
                       !.score = @ + 1]
        ELSE IF TouchesGround(pos.y, o.h)
        THEN [w EXCEPT !.parcels[i].position = pos,
                       !.parcels[i].active = FALSE,
                       !.fate[i] = "landed"]
        ELSE [w EXCEPT !.parcels[i].position = pos]

\* The loop body with the target taken by value (for (auto t : targets)): the
\* hit target's own active flag is never cleared.
UpdateParcelTargetByValue(w, i, dt, o) ==
    LET p   == w.parcels[i]
        pos == Integrate(p, dt)
        j   == FirstMatch(pos, p.radius, w.targets)
    IN  IF o.crash
        THEN [w EXCEPT !.parcels[i].position = pos, !.crashed = TRUE]
        ELSE IF TouchesGround(pos.y, o.h)
        THEN [w EXCEPT !.parcels[i].position = pos,
                       !.parcels[i].active = FALSE,
                       !.fate[i] = "landed"]
        ELSE IF j = 0
        THEN [w EXCEPT !.parcels[i].position = pos]
        ELSE [w EXCEPT !.parcels[i].position = pos,
                       !.parcels[i].active = FALSE,
                       !.fate[i] = "hit",
                       !.score = @ + 1]

\* The body of the parcel loop for parcel i, given the terrain outcome o.
UpdateParcel(w, i, dt, o) ==
    LET p   == w.parcels[i]
        pos == Integrate(p, dt)
        j   == FirstMatch(pos, p.radius, w.targets)
    IN  IF o.crash
        THEN [w EXCEPT !.parcels[i].position = pos, !.crashed = TRUE]
        ELSE IF TouchesGround(pos.y, o.h)
        THEN [w EXCEPT !.parcels[i].position = pos,
                       !.parcels[i].active = FALSE,
                       !.fate[i] = "landed"]
        ELSE IF j = 0
        THEN [w EXCEPT !.parcels[i].position = pos]
        ELSE [w EXCEPT !.parcels[i].position = pos,
                       !.parcels[i].active = FALSE,
                       !.fate[i] = "hit",
                       !.targets[j].active = FALSE,
                       !.score = @ + 1]

\* if (!p.active) continue;
Skipped(p) == ~p.active

\* The parcel loop from position k of the iteration order on: every world it
\* can end in.
RECURSIVE UpdateFrom(_, _, _, _, _)
UpdateFrom(w, order, k, dt, img) ==
    IF w.crashed \/ k > Len(order) THEN {w}
    ELSE LET i == order[k]
         IN  IF Skipped(w.parcels[i]) THEN UpdateFrom(w, order, k + 1, dt, img)
             ELSE LET pos == Integrate(w.parcels[i], dt)
                  IN  UNION {UpdateFrom(UpdateParcel(w, i, dt, o), order, k + 1, dt, img) :
                             o \in getTerrainHeight(pos.x, pos.z, img,
                                                    TerrainScale, TerrainHeightScale)}

\* The order of the range-for: the vector's own.
VectorOrder(ps) == [k \in 1..Len(ps) |-> k]

\* The whole update of one frame.
UpdateParcels(w, dt, img) == UpdateFrom(w, VectorOrder(w.parcels), 1, dt, img)

----------------------------------------------------------------------------
(* main(): startup and the frame loop *)

Keys == {"W", "S", "A", "D", "Space", "LControl"}

KeySets == {ks \in SUBSET Keys : Cardinality(ks) <= MaxKeysDown}

DTs == 1..MaxDt

\* The six isKeyPressed lines; forward = (0,0,-1), right = (1,0,0).
MoveAirship(pos, ks, dt) ==
    LET step == AirshipSpeed * dt
        on(k) == IF k \in ks THEN step ELSE 0
    IN  Vec(pos.x + on("D") - on("A"),
            pos.y + on("Space") - on("LControl"),
            pos.z - on("W") + on("S"))

\* Where the model lets the airship go.
AirshipInReach(pos) ==
    /\ pos.x >= AirshipStart.x - AirshipReach * AirshipSpeed
    /\ pos.x <= AirshipStart.x + AirshipReach * AirshipSpeed
    /\ pos.y = AirshipStart.y
    /\ pos.z = AirshipStart.z

\* Target i of the setup loop, on elevation ty.
TargetAt(i, ty) == NewTarget(Vec(i * 150 - 300, ty + 20, i * 100 - 200))

\* The setup loop from target i on: every [targets, crashed] it can end in.
RECURSIVE PlaceTargets(_, _, _)
PlaceTargets(i, acc, img) ==
    IF i >= NumTargets THEN {[targets |-> acc, crashed |-> FALSE]}
    ELSE UNION {IF o.crash THEN {[targets |-> acc, crashed |-> TRUE]}
                ELSE PlaceTargets(i + 1, Append(acc, TargetAt(i, o.h)), img) :
                o \in getTerrainHeight(i * 150 - 300, i * 100 - 200, img,
                                       TerrainScale, TerrainHeightScale)}

\* treePos.y = getTerrainHeight(treePos.x, treePos.z, ...), then the targets.
Startup(img) ==
    UNION {IF o.crash THEN {[targets |-> <<>>, crashed |-> TRUE]}
           ELSE PlaceTargets(0, <<>>, img) :
           o \in getTerrainHeight(200, 200, img, TerrainScale, TerrainHeightScale)}

NoAlt == [parcels |-> <<>>, targets |-> <<>>, fate |-> <<>>, score |-> 0, crashed |-> FALSE]
NoQuery == [called |-> FALSE, worldX |-> 0, worldZ |-> 0, crash |-> FALSE, oob |-> FALSE, h |-> 0]
NoMesh == [gen |-> "none", radius |-> 0, height |-> 0, segments |-> 0,
           outcome |-> "none", vertices |-> <<>>, indices |-> <<>>]

Init ==
    /\ heightMap \in Images
    /\ \E s \in Startup(heightMap) : targets = s.targets /\ crashed = s.crashed
    /\ parcels = <<>>
    /\ fate = <<>>
    /\ score = 0
    /\ airshipPos = AirshipStart
    /\ alt = NoAlt
    /\ query = NoQuery
    /\ mesh = NoMesh

\* if (event.key.code == sf::Keyboard::P) { Parcel p; ...; parcels.push_back(p); }
RECURSIVE Spawn(_, _, _)
Spawn(w, airship, n) ==
    IF n = 0 THEN w
    ELSE Spawn([w EXCEPT !.parcels = Append(@, NewParcel(SpawnPosition(airship))),
                         !.fate = Append(@, "falling")], airship, n - 1)

\* One iteration of while (window.isOpen()): the polled P presses, the clock,
\* the movement keys, the parcel loop.
Frame(nSpawn, dt, ks) ==
    /\ ~crashed
    /\ Len(parcels) + nSpawn <= MaxParcels
    /\ AirshipInReach(MoveAirship(airshipPos, ks, dt))
    /\ airshipPos' = MoveAirship(airshipPos, ks, dt)
    /\ \E w \in UpdateParcels(Spawn(World(parcels, targets, fate, score, crashed),
                                    airshipPos, nSpawn), dt, heightMap) :
          /\ parcels' = w.parcels
          /\ targets' = w.targets
          /\ fate' = w.fate
          /\ score' = w.score
          /\ crashed' = w.crashed
    /\ UNCHANGED <<heightMap, alt, query, mesh>>

Next == \E nSpawn \in 0..MaxSpawnPerFrame, dt \in DTs, ks \in KeySets : Frame(nSpawn, dt, ks)

Spec == Init /\ [][Next]_vars

\* The window stays open: the loop of line 472 keeps taking frames, each with a
\* dt of at least the smallest value of DTs, for as long as the process runs.
\* This is weak fairness of Next written out: while a parcel is active a frame
\* that changes the state is enabled exactly when the process has not ended.
SpecLive == Spec /\ ([]<><<Next>>_vars \/ []<>crashed)

----------------------------------------------------------------------------
(* getTerrainHeight on its own: calls at sampled coordinates *)

\* Coordinates at and around the footprint's edges, and one inside.
QueryCoords ==
    {0} \cup UNION {{-HalfSize(TerrainScale) - d, -HalfSize(TerrainScale) + d,
                     HalfSize(TerrainScale) - d, HalfSize(TerrainScale) + d} :
                    d \in 0..QueryMargin}

InitHeight ==
    /\ \E k \in DOMAIN ImageChoices : heightMap = ImageChoices[k]
    /\ targets = <<>>
    /\ parcels = <<>>
    /\ fate = <<>>
    /\ score = 0
    /\ airshipPos = AirshipStart
    /\ crashed = FALSE
    /\ alt = NoAlt
    /\ query = NoQuery
    /\ mesh = NoMesh

\* One call of getTerrainHeight(worldX, worldZ, heightMapImage, 2.0f, 10.0f).
QueryHeight(worldX, worldZ) ==
    /\ ~crashed
    /\ \E o \in getTerrainHeight(worldX, worldZ, heightMap, TerrainScale, TerrainHeightScale) :
          /\ query' = [called |-> TRUE, worldX |-> worldX, worldZ |-> worldZ,
                       crash |-> o.crash, oob |-> o.oob, h |-> o.h]
          /\ crashed' = o.crash
    /\ UNCHANGED <<heightMap, targets, parcels, fate, score, airshipPos, alt, mesh>>

NextHeight == \E worldX \in QueryCoords, worldZ \in QueryCoords : QueryHeight(worldX, worldZ)

SpecHeight == InitHeight /\ [][NextHeight]_vars

----------------------------------------------------------------------------
(* The physics step on given scenes, beside the same scene stepped with the *)
(* parcels iterated in another order                                        *)

\* Target lists: one target under the drop line; two targets 2 units apart.
SceneTargets ==
    {<<NewTarget(Vec(0, 10, 0))>>,
     <<NewTarget(Vec(0, 20, 0)), NewTarget(Vec(20, 20, 0))>>}

\* Where a scene's parcels start.
SceneStarts == {Vec(0, 500, 0), Vec(10, 260, 0), Vec(-15, 260, 0), Vec(10, 245, 0)}

SceneParcels ==
    UNION {[1..n -> {NewParcel(pos) : pos \in SceneStarts}] : n \in 1..MaxParcels}

\* The orders in which n parcels can be iterated.
Orders(n) == {f \in [1..n -> 1..n] : \A a, b \in 1..n : f[a] = f[b] => a = b}

\* The scenes have a loaded height map; Spec has the runs on a failed one.
InitScene ==
    /\ heightMap \in {FlatImage, HillsImage}
    /\ targets \in SceneTargets
    /\ parcels \in SceneParcels
    /\ fate = [i \in DOMAIN parcels |-> "falling"]
    /\ score = 0
    /\ airshipPos = AirshipStart
    /\ crashed = FALSE
    /\ alt = World(parcels, targets, fate, score, crashed)
    /\ query = NoQuery
    /\ mesh = NoMesh

AnyActive(ps) == \E i \in DOMAIN ps : ps[i].active

\* One tick of duration dt: the program's loop on the world, and the loop run
\* in the given order on the other copy.
SceneTick(dt, order) ==
    /\ ~crashed
    /\ AnyActive(parcels) \/ AnyActive(alt.parcels)
    /\ \E w \in UpdateParcels(World(parcels, targets, fate, score, crashed), dt, heightMap) :
          /\ parcels' = w.parcels
          /\ targets' = w.targets
          /\ fate' = w.fate
          /\ score' = w.score
          /\ crashed' = w.crashed
    /\ alt' \in UpdateFrom(alt, order, 1, dt, heightMap)
    /\ UNCHANGED <<heightMap, airshipPos, query, mesh>>

NextScene == \E dt \in DTs, order \in Orders(Len(parcels)) : SceneTick(dt, order)

SpecScene == InitScene /\ [][NextScene]_vars

----------------------------------------------------------------------------
(* Mesh generators.  A float of the vertex array is kept as what it was     *)
(* computed from: a literal (in tenths), or a named expression of the call's *)
(* radius, height, segment index and segment count.                         *)

Lit(c) == [t |-> "lit", r |-> c, h |-> 0, i |-> 0, n |-> 0]

Sym(tag, r, h, i, n) == [t |-> tag, r |-> r, h |-> h, i |-> i, n |-> n]

Stride == 14    \* floats per vertex: glVertexAttribPointer(..., 14 * sizeof(float), ...)

\* generateCone: base center and apex
ConeCenters(height) ==
    <<Lit(0), Lit(0), Lit(0),  Lit(0), Lit(-10), Lit(0),  Lit(5), Lit(5),
      Lit(10), Lit(0), Lit(0),  Lit(0), Lit(0), Lit(10)>>
    \o <<Lit(0), Lit(10 * height), Lit(0),  Lit(0), Lit(10), Lit(0),  Lit(5), Lit(5),
         Lit(10), Lit(0), Lit(0),  Lit(0), Lit(0), Lit(10)>>

\* generateCone: the base vertex and the side vertex of segment i
ConeSegment(radius, height, i, n) ==
    <<Sym("x", radius, 0, i, n), Lit(0), Sym("z", radius, 0, i, n),
      Lit(0), Lit(-10), Lit(0),
      Sym("u", radius, 0, i, n), Sym("v", radius, 0, i, n),
      Lit(10), Lit(0), Lit(0),  Lit(0), Lit(0), Lit(10)>>
    \o <<Sym("x", radius, 0, i, n), Lit(0), Sym("z", radius, 0, i, n),
         Sym("sideNormal.x", radius, height, i, n), Sym("sideNormal.y", radius, height, i, n),
         Sym("sideNormal.z", radius, height, i, n),
         Sym("i/segments", 0, 0, i, n), Lit(0),
         Lit(10), Lit(0), Lit(0),  Lit(0), Lit(10), Lit(0)>>

\* The successor without the wrap-around.
NextSegmentNoWrap(i, n) == i + 1

\* (i + 1) % segments
NextSegment(i, n) == (i + 1) % n

\* generateCone: the base triangle of segment i
ConeBaseIndices(i, n) == <<0, 2 + i * 2, 2 + NextSegment(i, n) * 2>>

\* generateCone: the side triangle of segment i
ConeSideIndices(i, n) == <<1, 2 + NextSegment(i, n) * 2 + 1, 2 + i * 2 + 1>>

\* for (int i = 0; i < segments; ++i) { base vertex; side vertex }, from i on
RECURSIVE ConeVertexLoop(_, _, _, _)
ConeVertexLoop(radius, height, i, n) ==
    IF i < n THEN ConeSegment(radius, height, i, n) \o ConeVertexLoop(radius, height, i + 1, n)
    ELSE <<>>

\* The "Indices Base" loop, from i on
RECURSIVE ConeBaseLoop(_, _)
ConeBaseLoop(i, n) == IF i < n THEN ConeBaseIndices(i, n) \o ConeBaseLoop(i + 1, n) ELSE <<>>

\* The "Indices Sides" loop, from i on
RECURSIVE ConeSideLoop(_, _)
ConeSideLoop(i, n) == IF i < n THEN ConeSideIndices(i, n) \o ConeSideLoop(i + 1, n) ELSE <<>>

generateCone(radius, height, segments) ==
    [gen |-> "cone", radius |-> radius, height |-> height, segments |-> segments,
     outcome |-> "returned",
     vertices |-> ConeCenters(height) \o ConeVertexLoop(radius, height, 0, segments),
     indices |-> ConeBaseLoop(0, segments) \o ConeSideLoop(0, segments)]

\* generateCylinder: bottom and top center
CylinderCenters(height) ==
    <<Lit(0), Lit(0), Lit(0),  Lit(0), Lit(-10), Lit(0),  Lit(5), Lit(5),
      Lit(10), Lit(0), Lit(0),  Lit(0), Lit(0), Lit(10)>>
    \o <<Lit(0), Lit(10 * height), Lit(0),  Lit(0), Lit(10), Lit(0),  Lit(5), Lit(5),
         Lit(10), Lit(0), Lit(0),  Lit(0), Lit(0), Lit(10)>>

\* generateCylinder: bottom rim, top rim, side bottom, side top of segment i
CylinderSegment(radius, height, i, n) ==
    <<Sym("x", radius, 0, i, n), Lit(0), Sym("z", radius, 0, i, n),
      Lit(0), Lit(-10), Lit(0),  Sym("i/segments", 0, 0, i, n), Lit(0),
      Lit(10), Lit(0), Lit(0),  Lit(0), Lit(0), Lit(10)>>
    \o <<Sym("x", radius, 0, i, n), Lit(10 * height), Sym("z", radius, 0, i, n),
         Lit(0), Lit(10), Lit(0),  Sym("i/segments", 0, 0, i, n), Lit(10),
         Lit(10), Lit(0), Lit(0),  Lit(0), Lit(0), Lit(10)>>
    \o <<Sym("x", radius, 0, i, n), Lit(0), Sym("z", radius, 0, i, n),
         Sym("n.x", radius, 0, i, n), Sym("n.y", radius, 0, i, n), Sym("n.z", radius, 0, i, n),
         Sym("i/segments", 0, 0, i, n), Lit(10),
         Sym("-z", radius, 0, i, n), Lit(0), Sym("x", radius, 0, i, n),
         Lit(0), Lit(10), Lit(0)>>
    \o <<Sym("x", radius, 0, i, n), Lit(10 * height), Sym("z", radius, 0, i, n),
         Sym("n.x", radius, 0, i, n), Sym("n.y", radius, 0, i, n), Sym("n.z", radius, 0, i, n),
         Sym("i/segments", 0, 0, i, n), Lit(0),
         Sym("-z", radius, 0, i, n), Lit(0), Sym("x", radius, 0, i, n),
         Lit(0), Lit(10), Lit(0)>>

\* The cylinder's indices with the top cap's triangle left out.
CylinderIndicesNoTopCap(i, n) ==
    LET next == (i + 1) % n
    IN  <<0, 2 + i * 4, 2 + next * 4>>
        \o <<2 + i * 4 + 2, 2 + next * 4 + 3, 2 + i * 4 + 3>>
        \o <<2 + i * 4 + 2, 2 + next * 4 + 2, 2 + next * 4 + 3>>

\* generateCylinder: bottom cap, top cap and the two side triangles of segment i
CylinderIndices(i, n) ==
    LET baseOffset == 2
        next == NextSegment(i, n)
        bl == baseOffset + i * 4 + 2
        tl == baseOffset + i * 4 + 3
        br == baseOffset + next * 4 + 2
        tr == baseOffset + next * 4 + 3
    IN  <<0, baseOffset + i * 4, baseOffset + next * 4>>
        \o <<1, baseOffset + next * 4 + 1, baseOffset + i * 4 + 1>>
        \o <<bl, tr, tl>>
        \o <<bl, br, tr>>

\* for (int i = 0; i < segments; ++i) { the four vertices }, from i on
RECURSIVE CylinderVertexLoop(_, _, _, _)
CylinderVertexLoop(radius, height, i, n) ==
    IF i < n
    THEN CylinderSegment(radius, height, i, n) \o CylinderVertexLoop(radius, height, i + 1, n)
    ELSE <<>>

\* The index loop, from i on
RECURSIVE CylinderIndexLoop(_, _)
CylinderIndexLoop(i, n) ==
    IF i < n THEN CylinderIndices(i, n) \o CylinderIndexLoop(i + 1, n) ELSE <<>>

generateCylinder(radius, height, segments) ==
    [gen |-> "cylinder", radius |-> radius, height |-> height, segments |-> segments,
     outcome |-> "returned",
     vertices |-> CylinderCenters(height) \o CylinderVertexLoop(radius, height, 0, segments),
     indices |-> CylinderIndexLoop(0, segments)]

\* A float of a vertex computed from two loop indices: i of ni and j of nj.
Grid(tag, r, i, ni, j, nj) == [t |-> tag, r |-> r, i |-> i, ni |-> ni, j |-> j, nj |-> nj]

\* generateCube: the 24 vertices of the initializer list; half = size / 2.0f,
\* in tenths 5 * size.
CubeVertices(size) ==
    <<
      Lit(-5 * size), Lit(-5 * size), Lit(5 * size), Lit(0), Lit(0), Lit(10), Lit(0), Lit(0), Lit(10), Lit(0), Lit(0), Lit(0), Lit(10), Lit(0),
      Lit(5 * size), Lit(-5 * size), Lit(5 * size), Lit(0), Lit(0), Lit(10), Lit(10), Lit(0), Lit(10), Lit(0), Lit(0), Lit(0), Lit(10), Lit(0),
      Lit(5 * size), Lit(5 * size), Lit(5 * size), Lit(0), Lit(0), Lit(10), Lit(10), Lit(10), Lit(10), Lit(0), Lit(0), Lit(0), Lit(10), Lit(0),
      Lit(-5 * size), Lit(5 * size), Lit(5 * size), Lit(0), Lit(0), Lit(10), Lit(0), Lit(10), Lit(10), Lit(0), Lit(0), Lit(0), Lit(10), Lit(0),
      Lit(-5 * size), Lit(-5 * size), Lit(-5 * size), Lit(0), Lit(0), Lit(-10), Lit(10), Lit(0), Lit(-10), Lit(0), Lit(0), Lit(0), Lit(10), Lit(0),
      Lit(5 * size), Lit(-5 * size), Lit(-5 * size), Lit(0), Lit(0), Lit(-10), Lit(0), Lit(0), Lit(-10), Lit(0), Lit(0), Lit(0), Lit(10), Lit(0),
      Lit(5 * size), Lit(5 * size), Lit(-5 * size), Lit(0), Lit(0), Lit(-10), Lit(0), Lit(10), Lit(-10), Lit(0), Lit(0), Lit(0), Lit(10), Lit(0),
      Lit(-5 * size), Lit(5 * size), Lit(-5 * size), Lit(0), Lit(0), Lit(-10), Lit(10), Lit(10), Lit(-10), Lit(0), Lit(0), Lit(0), Lit(10), Lit(0),
      Lit(-5 * size), Lit(5 * size), Lit(-5 * size), Lit(0), Lit(10), Lit(0), Lit(0), Lit(10), Lit(10), Lit(0), Lit(0), Lit(0), Lit(0), Lit(-10),
      Lit(5 * size), Lit(5 * size), Lit(-5 * size), Lit(0), Lit(10), Lit(0), Lit(10), Lit(10), Lit(10), Lit(0), Lit(0), Lit(0), Lit(0), Lit(-10),
      Lit(5 * size), Lit(5 * size), Lit(5 * size), Lit(0), Lit(10), Lit(0), Lit(10), Lit(0), Lit(10), Lit(0), Lit(0), Lit(0), Lit(0), Lit(-10),
      Lit(-5 * size), Lit(5 * size), Lit(5 * size), Lit(0), Lit(10), Lit(0), Lit(0), Lit(0), Lit(10), Lit(0), Lit(0), Lit(0), Lit(0), Lit(-10),
      Lit(-5 * size), Lit(-5 * size), Lit(-5 * size), Lit(0), Lit(-10), Lit(0), Lit(0), Lit(0), Lit(10), Lit(0), Lit(0), Lit(0), Lit(0), Lit(10),
      Lit(5 * size), Lit(-5 * size), Lit(-5 * size), Lit(0), Lit(-10), Lit(0), Lit(10), Lit(0), Lit(10), Lit(0), Lit(0), Lit(0), Lit(0), Lit(10),
      Lit(5 * size), Lit(-5 * size), Lit(5 * size), Lit(0), Lit(-10), Lit(0), Lit(10), Lit(10), Lit(10), Lit(0), Lit(0), Lit(0), Lit(0), Lit(10),
      Lit(-5 * size), Lit(-5 * size), Lit(5 * size), Lit(0), Lit(-10), Lit(0), Lit(0), Lit(10), Lit(10), Lit(0), Lit(0), Lit(0), Lit(0), Lit(10),
      Lit(5 * size), Lit(-5 * size), Lit(-5 * size), Lit(10), Lit(0), Lit(0), Lit(10), Lit(0), Lit(0), Lit(0), Lit(-10), Lit(0), Lit(10), Lit(0),
      Lit(5 * size), Lit(5 * size), Lit(-5 * size), Lit(10), Lit(0), Lit(0), Lit(10), Lit(10), Lit(0), Lit(0), Lit(-10), Lit(0), Lit(10), Lit(0),
      Lit(5 * size), Lit(5 * size), Lit(5 * size), Lit(10), Lit(0), Lit(0), Lit(0), Lit(10), Lit(0), Lit(0), Lit(-10), Lit(0), Lit(10), Lit(0),
      Lit(5 * size), Lit(-5 * size), Lit(5 * size), Lit(10), Lit(0), Lit(0), Lit(0), Lit(0), Lit(0), Lit(0), Lit(-10), Lit(0), Lit(10), Lit(0),
      Lit(-5 * size), Lit(-5 * size), Lit(-5 * size), Lit(-10), Lit(0), Lit(0), Lit(0), Lit(0), Lit(0), Lit(0), Lit(10), Lit(0), Lit(10), Lit(0),
      Lit(-5 * size), Lit(5 * size), Lit(-5 * size), Lit(-10), Lit(0), Lit(0), Lit(0), Lit(10), Lit(0), Lit(0), Lit(10), Lit(0), Lit(10), Lit(0),
      Lit(-5 * size), Lit(5 * size), Lit(5 * size), Lit(-10), Lit(0), Lit(0), Lit(10), Lit(10), Lit(0), Lit(0), Lit(10), Lit(0), Lit(10), Lit(0),
      Lit(-5 * size), Lit(-5 * size), Lit(5 * size), Lit(-10), Lit(0), Lit(0), Lit(10), Lit(0), Lit(0), Lit(0), Lit(10), Lit(0), Lit(10), Lit(0)
    >>

\* generateCube: mesh.indices = { 0, 1, 2, 2, 3, 0, ... }
CubeIndices ==
    <<0, 1, 2, 2, 3, 0, 4, 5, 6, 6, 7, 4, 8, 9, 10, 10, 11, 8,
      12, 13, 14, 14, 15, 12, 16, 17, 18, 18, 19, 16, 20, 21, 22, 22, 23, 20>>

generateCube(size) ==
    [gen |-> "cube", size |-> size, outcome |-> "returned",
     vertices |-> CubeVertices(size), indices |-> CubeIndices]

\* generateEllipsoid: the two inserts of stack i, slice j: position, normal and
\* texture coordinates (8 floats), then tangent and bitangent (6 floats).
EllipsoidVertex(rx, ry, rz, i, stacks, j, slices) ==
    <<Grid("x", rx, i, stacks, j, slices), Grid("y", ry, i, stacks, j, slices),
      Grid("z", rz, i, stacks, j, slices),
      Grid("normalVec.x", 0, i, stacks, j, slices), Grid("normalVec.y", 0, i, stacks, j, slices),
      Grid("normalVec.z", 0, i, stacks, j, slices),
      Grid("j/slices", 0, 0, 0, j, slices), Grid("i/stacks", 0, i, stacks, 0, 0)>>
    \o <<Grid("tangent.x", 0, 0, 0, j, slices), Grid("tangent.y", 0, 0, 0, j, slices),
         Grid("tangent.z", 0, 0, 0, j, slices),
         Grid("bitangent.x", 0, i, stacks, j, slices), Grid("bitangent.y", 0, i, stacks, j, slices),
         Grid("bitangent.z", 0, i, stacks, j, slices)>>

\* for (int j = 0; j <= slices; ++j) of the vertex loops
RECURSIVE EllipsoidSliceLoop(_, _, _, _, _, _, _)
EllipsoidSliceLoop(rx, ry, rz, i, stacks, j, slices) ==
    IF j <= slices
    THEN EllipsoidVertex(rx, ry, rz, i, stacks, j, slices)
            \o EllipsoidSliceLoop(rx, ry, rz, i, stacks, j + 1, slices)
    ELSE <<>>

\* for (int i = 0; i <= stacks; ++i) of the vertex loops
RECURSIVE EllipsoidStackLoop(_, _, _, _, _, _)
EllipsoidStackLoop(rx, ry, rz, i, stacks, slices) ==
    IF i <= stacks
    THEN EllipsoidSliceLoop(rx, ry, rz, i, stacks, 0, slices)
            \o EllipsoidStackLoop(rx, ry, rz, i + 1, stacks, slices)
    ELSE <<>>

\* int first = (i * (slices + 1)) + j; int second = first + slices + 1; and the
\* six push_back calls
EllipsoidQuad(i, j, slices) ==
    LET first  == (i * (slices + 1)) + j
        second == first + slices + 1
    IN  <<first, second, first + 1, second, second + 1, first + 1>>

\* for (int j = 0; j < slices; ++j) of the index loops
RECURSIVE EllipsoidQuadSliceLoop(_, _, _)
EllipsoidQuadSliceLoop(i, j, slices) ==
    IF j < slices
    THEN EllipsoidQuad(i, j, slices) \o EllipsoidQuadSliceLoop(i, j + 1, slices)
    ELSE <<>>

\* for (int i = 0; i < stacks; ++i) of the index loops
RECURSIVE EllipsoidQuadStackLoop(_, _, _)
EllipsoidQuadStackLoop(i, stacks, slices) ==
    IF i < stacks
    THEN EllipsoidQuadSliceLoop(i, 0, slices) \o EllipsoidQuadStackLoop(i + 1, stacks, slices)
    ELSE <<>>

generateEllipsoid(rx, ry, rz, slices, stacks) ==
    [gen |-> "ellipsoid", rx |-> rx, ry |-> ry, rz |-> rz, slices |-> slices, stacks |-> stacks,
     outcome |-> "returned",
     vertices |-> EllipsoidStackLoop(rx, ry, rz, 0, stacks, slices),
     indices |-> EllipsoidQuadStackLoop(0, stacks, slices)]

\* generateTerrain: the vertex of column x, row z; lengths in tenths, so
\* (float)x - width / 2.0f is 10 * x - 5 * width.
TerrainVertex(x, z, width, depth) ==
    <<Lit(10 * x - 5 * width), Lit(0), Lit(10 * z - 5 * depth),
      Lit(0), Lit(10), Lit(0),
      Grid("u * 10.0f", 0, x, width, 0, 0), Grid("v * 10.0f", 0, 0, 0, z, depth),
      Lit(10), Lit(0), Lit(0),  Lit(0), Lit(0), Lit(10)>>

\* for (int x = 0; x <= width; ++x) of the vertex loops
RECURSIVE TerrainColumnLoop(_, _, _, _)
TerrainColumnLoop(x, z, width, depth) ==
    IF x <= width
    THEN TerrainVertex(x, z, width, depth) \o TerrainColumnLoop(x + 1, z, width, depth)
    ELSE <<>>

\* for (int z = 0; z <= depth; ++z) of the vertex loops
RECURSIVE TerrainRowLoop(_, _, _)
TerrainRowLoop(z, width, depth) ==
    IF z <= depth
    THEN TerrainColumnLoop(0, z, width, depth) \o TerrainRowLoop(z + 1, width, depth)
    ELSE <<>>

\* The cell of row z, column x with rows of width + 2 vertices.
TerrainCellWideRow(z, x, width) ==
    LET topLeft     == (z * (width + 2)) + x
        topRight    == topLeft + 1
        bottomLeft  == ((z + 1) * (width + 2)) + x
        bottomRight == bottomLeft + 1
    IN  <<topLeft, bottomLeft, topRight, topRight, bottomLeft, bottomRight>>

\* int topLeft = (z * (width + 1)) + x; ... and the six push_back calls
TerrainCell(z, x, width) ==
    LET topLeft     == (z * (width + 1)) + x
        topRight    == topLeft + 1
        bottomLeft  == ((z + 1) * (width + 1)) + x
        bottomRight == bottomLeft + 1
    IN  <<topLeft, bottomLeft, topRight, topRight, bottomLeft, bottomRight>>

\* for (int x = 0; x < width; ++x) of the index loops
RECURSIVE TerrainCellColumnLoop(_, _, _)
TerrainCellColumnLoop(z, x, width) ==
    IF x < width
    THEN TerrainCell(z, x, width) \o TerrainCellColumnLoop(z, x + 1, width)
    ELSE <<>>

\* for (int z = 0; z < depth; ++z) of the index loops
RECURSIVE TerrainCellRowLoop(_, _, _)
TerrainCellRowLoop(z, width, depth) ==
    IF z < depth
    THEN TerrainCellColumnLoop(z, 0, width) \o TerrainCellRowLoop(z + 1, width, depth)
    ELSE <<>>

generateTerrain(width, depth) ==
    [gen |-> "terrain", width |-> width, depth |-> depth, outcome |-> "returned",
     vertices |-> TerrainRowLoop(0, width, depth),
     indices |-> TerrainCellRowLoop(0, width, depth)]

\* Slice, stack, width and depth counts of the calls.
GridCounts == 0..MaxGrid

\* The radii of the program's three ellipsoids, in tenths: the airship's hull
\* and the two of the scenery.
EllipsoidRadii == {<<50, 30, 30>>, <<6, 30, 6>>, <<4, 4, 4>>}

SegmentCounts == -1..MaxSegments

Sizes == 1..MaxSize

InitMesh ==
    /\ heightMap = EmptyImage
    /\ targets = <<>>
    /\ parcels = <<>>
    /\ fate = <<>>
    /\ score = 0
    /\ airshipPos = AirshipStart
    /\ crashed = FALSE
    /\ alt = NoAlt
    /\ query = NoQuery
    /\ mesh = NoMesh

MeshUnchanged == UNCHANGED <<heightMap, targets, parcels, fate, score, airshipPos, crashed, alt, query>>

CallGenerateCone(radius, height, segments) ==
    /\ mesh' = generateCone(radius, height, segments)
    /\ MeshUnchanged

CallGenerateCylinder(radius, height, segments) ==
    /\ mesh' = generateCylinder(radius, height, segments)
    /\ MeshUnchanged

CallGenerateCube(size) ==
    /\ mesh' = generateCube(size)
    /\ MeshUnchanged

CallGenerateEllipsoid(rx, ry, rz, slices, stacks) ==
    /\ mesh' = generateEllipsoid(rx, ry, rz, slices, stacks)
    /\ MeshUnchanged

CallGenerateTerrain(width, depth) ==
    /\ mesh' = generateTerrain(width, depth)
    /\ MeshUnchanged

NextMesh ==
    \/ \E radius \in Sizes, height \in Sizes, segments \in SegmentCounts :
          \/ CallGenerateCone(radius, height, segments)
          \/ CallGenerateCylinder(radius, height, segments)
    \/ \E size \in Sizes : CallGenerateCube(size)
    \/ \E r \in EllipsoidRadii, slices \in GridCounts, stacks \in GridCounts :
          CallGenerateEllipsoid(r[1], r[2], r[3], slices, stacks)
    \/ \E width \in GridCounts, depth \in GridCounts : CallGenerateTerrain(width, depth)

SpecMesh == InitMesh /\ [][NextMesh]_vars

----------------------------------------------------------------------------
(* Properties *)

AllStopped(ps) == \A i \in DOMAIN ps : ~ps[i].active

\* C1: with the same parcels, targets and tick durations, the final score is
\* the same whatever the order in which the parcels are iterated.
OrderIndependentScore ==
    (AllStopped(parcels) /\ AllStopped(alt.parcels)) => score = alt.score

\* The targets active before a step that a parcel of the given radius at pos
\* is within hit range of.
InRangeOf(pos, radius) ==
    {j \in DOMAIN targets :
        /\ targets[j].active
        /\ DistanceSq(pos, targets[j].position)
              < (radius + targets[j].radius) * (radius + targets[j].radius)}

\* The elevations the height field can answer at pos.
ElevationsAt(pos) ==
    {o.h : o \in getTerrainHeight(pos.x, pos.z, heightMap, TerrainScale, TerrainHeightScale)}

\* Parcel i was active and this step integrated it.
Ticked(i) == parcels[i].active /\ parcels'[i].position # parcels[i].position

\* C2: when the only active parcel ends a tick above the ground and within hit
\* range of two or more active targets, the earliest of them in list order is
\* deactivated and no other, the parcel is deactivated, and the score rises by 1.
FirstTargetWins ==
    [][\A i \in DOMAIN parcels :
          LET pos == parcels'[i].position
              c   == InRangeOf(pos, parcels[i].radius)
          IN  ( /\ Ticked(i)
                /\ \A k \in DOMAIN parcels : k # i => ~parcels[k].active
                /\ \A h \in ElevationsAt(pos) : pos.y > h
                /\ Cardinality(c) >= 2 )
              => /\ ~parcels'[i].active
                 /\ score' = score + 1
                 /\ \A j \in DOMAIN targets :
                       targets'[j].active
                          <=> (targets[j].active /\ (j \notin c \/ \E k \in c : k < j))
                 /\ \A j \in DOMAIN targets : j \notin c => targets'[j] = targets[j]
      ]_vars

\* C2 witness: one parcel stopped by a hit within range of both targets, the
\* first target gone, the second standing.
FirstTargetWinsReached ==
    /\ Len(parcels) = 1 /\ Len(targets) = 2
    /\ fate[1] = "hit" /\ score = 1
    /\ ~targets[1].active /\ targets[2].active
    /\ \A j \in 1..2 : DistanceSq(parcels[1].position, targets[j].position) < 30 * 30

\* C3: an inactive parcel or target is never active again and takes no part in
\* a later hit: each point of score is one target and one parcel that were
\* active before the step.
OneShot ==
    [][/\ \A i \in DOMAIN parcels :
             ~parcels[i].active => parcels'[i] = parcels[i] /\ fate'[i] = fate[i]
       /\ \A j \in DOMAIN targets : ~targets[j].active => targets'[j] = targets[j]
       /\ score' - score
             = Cardinality({j \in DOMAIN targets : targets[j].active /\ ~targets'[j].active})
       /\ score' - score
             = Cardinality({i \in DOMAIN parcels' : fate'[i] = "hit"})
               - Cardinality({i \in DOMAIN parcels : fate[i] = "hit"})
      ]_vars

\* C3 witness: a parcel has fallen to the ground through the place of a target
\* that an earlier parcel had destroyed.
OneShotReached ==
    \E i, k \in DOMAIN parcels, j \in DOMAIN targets :
        /\ i < k /\ fate[i] = "hit" /\ fate[k] = "landed"
        /\ ~targets[j].active /\ score = 1
        /\ parcels[k].position.x = targets[j].position.x
        /\ parcels[k].position.z = targets[j].position.z
        /\ parcels[k].position.y < targets[j].position.y

\* The scene of C4: one parcel dropped from (0, 50, 0) over one target at
\* (0, 1, 0), flat terrain at elevation 0.
InDropScenario ==
    /\ heightMap = FlatImage
    /\ Len(targets) = 1 /\ targets[1].position = Vec(0, 10, 0)
    /\ Len(parcels) = 1
    /\ parcels[1].position.x = 0 /\ parcels[1].position.z = 0

\* C4: in that scene, whatever the tick durations, the parcel hits the target
\* before its position.y is <= 0; it never ends landed.
ScenarioHitBeforeGround ==
    InDropScenario => (fate[1] # "landed" /\ (parcels[1].position.y <= 0 => fate[1] = "hit"))

\* C5: a parcel is deactivated as landed in exactly the tick after whose
\* integration its position.y is <= the elevation the height field answers at
\* its (x, z), its x and z unchanged, and in no tick that leaves it above that
\* elevation; landing changes neither score nor targets.
LandsExactlyAtGround ==
    [][~crashed' =>
          /\ \A i \in DOMAIN parcels :
                Ticked(i) =>
                   /\ parcels'[i].position.x = parcels[i].position.x
                   /\ parcels'[i].position.z = parcels[i].position.z
                   /\ fate'[i] = "landed"
                         => \E h \in ElevationsAt(parcels'[i].position) :
                               parcels'[i].position.y <= h
                   /\ fate'[i] # "landed"
                         => \E h \in ElevationsAt(parcels'[i].position) :
                               parcels'[i].position.y > h
                   /\ fate'[i] = "landed" => ~parcels'[i].active
          /\ (\A i \in DOMAIN parcels : Ticked(i) => fate'[i] = "landed")
                => score' = score /\ targets' = targets
      ]_vars

\* C5 witness: on a loaded image, a parcel landed with its position.y equal to
\* the elevation.
LandedAtGroundReached ==
    \E i \in DOMAIN parcels :
        /\ heightMap = FlatImage
        /\ fate[i] = "landed" /\ ~parcels[i].active
        /\ ElevationsAt(parcels[i].position) = {parcels[i].position.y}

\* C6: on an image that failed to load the query answers 0 everywhere and
\* reads no pixel outside the image.
EmptyImageAnswersZero ==
    (heightMap = EmptyImage /\ query.called)
        => (query.h = 0 /\ ~query.oob /\ ~query.crash)

\* halfSize = 100 * terrainScale / 2, in tenths
FootprintHalf == (1000 * TerrainScale) \div 2

StrictlyBeyond(worldX, worldZ) ==
    worldX < -FootprintHalf \/ worldX > FootprintHalf
        \/ worldZ < -FootprintHalf \/ worldZ > FootprintHalf

AtOrBeyond(worldX, worldZ) ==
    worldX <= -FootprintHalf \/ worldX >= FootprintHalf
        \/ worldZ <= -FootprintHalf \/ worldZ >= FootprintHalf

VertexCount(m) == Len(m.vertices) \div Stride

\* C8 as stated: a cylinder of segments >= 3 has 2 + 4*segments vertices of 14
\* floats and 8*segments indices.
CylinderEightIndices ==
    (mesh.gen = "cylinder" /\ mesh.segments >= 3)
        => /\ Len(mesh.vertices) = 14 * (2 + 4 * mesh.segments)
           /\ Len(mesh.indices) = 8 * mesh.segments

\* C8 amended: a cylinder of segments >= 3 has 2 + 4*segments vertices of 14
\* floats and 12*segments indices.
CylinderTwelveIndices ==
    (mesh.gen = "cylinder" /\ mesh.segments >= 3)
        => /\ Len(mesh.vertices) = 14 * (2 + 4 * mesh.segments)
           /\ Len(mesh.indices) = 12 * mesh.segments

\* C8 witness: a cylinder of the largest segment count has been generated.
CylinderReached ==
    mesh.gen = "cylinder" /\ mesh.segments = MaxSegments /\ mesh.outcome = "returned"

\* The normal of vertex k (from 0) of mesh m.
NormalOf(m, k) == SubSeq(m.vertices, Stride * k + 4, Stride * k + 6)

IsBaseRim(m, k) == NormalOf(m, k) = <<Lit(0), Lit(-10), Lit(0)>>

IsSide(m, k) == NormalOf(m, k)[1].t = "sideNormal.x"

\* C9: a cone of segments >= 3 has 2 + 2*segments vertices of 14 floats and
\* 6*segments indices, each below the vertex count; triangle i of the base fan
\* is vertex 0 and the base-rim vertices 2+2i and 2+2((i+1) mod segments),
\* triangle i of the side is vertex 1 and the side vertices 3+2((i+1) mod
\* segments) and 3+2i.
ConeShape ==
    (mesh.gen = "cone" /\ mesh.segments >= 3)
        => LET n == mesh.segments
           IN  /\ Len(mesh.vertices) = 14 * (2 + 2 * n)
               /\ Len(mesh.indices) = 6 * n
               /\ \A k \in DOMAIN mesh.indices :
                     mesh.indices[k] >= 0 /\ mesh.indices[k] < VertexCount(mesh)
               /\ \A i \in 0..(n - 1) :
                     /\ mesh.indices[3 * i + 1] = 0
                     /\ mesh.indices[3 * i + 2] = 2 + 2 * i
                     /\ mesh.indices[3 * i + 3] = 2 + 2 * ((i + 1) % n)
                     /\ IsBaseRim(mesh, mesh.indices[3 * i + 2])
                     /\ IsBaseRim(mesh, mesh.indices[3 * i + 3])
                     /\ mesh.indices[3 * n + 3 * i + 1] = 1
                     /\ mesh.indices[3 * n + 3 * i + 2] = 3 + 2 * ((i + 1) % n)
                     /\ mesh.indices[3 * n + 3 * i + 3] = 3 + 2 * i
                     /\ IsSide(mesh, mesh.indices[3 * n + 3 * i + 2])
                     /\ IsSide(mesh, mesh.indices[3 * n + 3 * i + 3])

\* C9 witness: a cone whose last base triangle wraps around to rim vertex 2.
ConeReached ==
    /\ mesh.gen = "cone" /\ mesh.segments = MaxSegments
    /\ mesh.indices[3 * mesh.segments] = 2

\* C10: a cone or cylinder asked for with fewer than 3 segments ends in an
\* error and returns no mesh.
GeneratorFailsFast ==
    (mesh.gen \in {"cone", "cylinder"} /\ mesh.segments < 3)
        => (mesh.outcome = "error" /\ mesh.vertices = <<>> /\ mesh.indices = <<>>)

\* Parcel i ends this step at or below every elevation the height field can
\* answer at its place.
GroundContact(i) ==
    \A h \in ElevationsAt(parcels'[i].position) : parcels'[i].position.y <= h

\* C11: a parcel whose integrated position.y is <= the ground elevation is
\* deactivated as landed and makes no hit in that tick, even within hit range
\* of an active target: every point of score and every deactivated target of
\* the tick belongs to a parcel that ended the tick above the ground.
GroundBeforeHit ==
    [][~crashed' =>
          /\ \A i \in DOMAIN parcels :
                (Ticked(i) /\ GroundContact(i))
                   => /\ ~parcels'[i].active
                      /\ fate'[i] = "landed"
          /\ score' - score
                = Cardinality({i \in DOMAIN parcels :
                                  Ticked(i) /\ ~GroundContact(i) /\ fate'[i] = "hit"})
          /\ Cardinality({j \in DOMAIN targets : targets[j].active /\ ~targets'[j].active})
                = score' - score
      ]_vars

\* C11 witness: a parcel lies landed within hit range of a target that is
\* still active, and nothing was scored.
GroundBeforeHitReached ==
    \E i \in DOMAIN parcels, j \in DOMAIN targets :
        /\ fate[i] = "landed" /\ ~parcels[i].active
        /\ targets[j].active /\ score = 0
        /\ DistanceSq(parcels[i].position, targets[j].position)
              < (parcels[i].radius + targets[j].radius) * (parcels[i].radius + targets[j].radius)

InactiveTargets == {j \in DOMAIN targets : ~targets[j].active}

\* C12: the score is the number of inactive targets and at most the 5 targets
\* of the startup; it never decreases, and a step adds to it one point for
\* each pair of an active target and an active parcel deactivated together by
\* a hit; parcels that land add nothing.
ScoreAccounting ==
    /\ [](/\ score = Cardinality(InactiveTargets)
          /\ score <= Len(targets)
          /\ Len(targets) <= NumTargets
          /\ score = Cardinality({i \in DOMAIN parcels : fate[i] = "hit"}))
    /\ [][/\ score' >= score
          /\ score' - score
                = Cardinality({j \in DOMAIN targets : targets[j].active /\ ~targets'[j].active})
          /\ score' - score
                = Cardinality({i \in DOMAIN parcels' :
                                  /\ fate'[i] = "hit" /\ ~parcels'[i].active
                                  /\ (i \in DOMAIN parcels => parcels[i].active)})
          /\ (\A i \in DOMAIN parcels' : fate'[i] # "hit" \/ (i \in DOMAIN parcels /\ fate[i] = "hit"))
                => score' = score
      ]_vars

\* C12 witness: one parcel has hit and another has landed; the score is 1 and
\* one target is inactive.
ScoreAccountingReached ==
    /\ score = 1 /\ Cardinality(InactiveTargets) = 1
    /\ \E i, k \in DOMAIN parcels : fate[i] = "landed" /\ fate[k] = "hit"

\* C13: while frames keep being taken, with durations bounded below, every
\* spawned parcel that is active eventually becomes inactive (landed or hit);
\* a frame that ends the process ends the frames.
EveryParcelStops ==
    \A i \in 1..MaxParcels :
        (IF i \in DOMAIN parcels THEN parcels[i].active ELSE FALSE)
            ~> (crashed \/ (IF i \in DOMAIN parcels
                            THEN ~parcels[i].active /\ fate[i] \in {"landed", "hit"}
                            ELSE FALSE))

\* C13 witness: parcels were spawned, fell for at least one frame, and all of
\* them are inactive.
EveryParcelStopsReached ==
    /\ ~crashed
    /\ Len(parcels) >= 1
    /\ \A i \in DOMAIN parcels :
          /\ ~parcels[i].active
          /\ fate[i] \in {"landed", "hit"}
          /\ parcels[i].position.y < AirshipStart.y

MaxIndex(m) == CHOOSE k \in {m.indices[n] : n \in DOMAIN m.indices} :
                  \A n \in DOMAIN m.indices : m.indices[n] <= k

\* The calls the index validity is stated for.
IndexedCall ==
    /\ mesh.outcome = "returned"
    /\ \/ mesh.gen = "cube"
       \/ (mesh.gen = "cylinder" /\ mesh.segments >= 1)
       \/ (mesh.gen = "ellipsoid" /\ mesh.slices >= 1 /\ mesh.stacks >= 1)
       \/ (mesh.gen = "terrain" /\ mesh.width >= 1 /\ mesh.depth >= 1)

\* C14: for generateCube, generateCylinder (segments >= 1), generateEllipsoid
\* (slices, stacks >= 1) and generateTerrain (width, depth >= 1) the vertex
\* array's length is a multiple of the 14-float stride, every index is below
\* vertices.size()/14 and the index count is a multiple of 3; a cube has 24
\* vertices and 36 indices, an ellipsoid (stacks+1)*(slices+1) and
\* 6*stacks*slices, a terrain (width+1)*(depth+1) and 6*width*depth.
MeshIndicesValid ==
    IndexedCall =>
        /\ Len(mesh.vertices) % Stride = 0
        /\ \A n \in DOMAIN mesh.indices :
              mesh.indices[n] >= 0 /\ mesh.indices[n] < VertexCount(mesh)
        /\ Len(mesh.indices) % 3 = 0
        /\ mesh.gen = "cube"
              => VertexCount(mesh) = 24 /\ Len(mesh.indices) = 36
        /\ mesh.gen = "ellipsoid"
              => /\ VertexCount(mesh) = (mesh.stacks + 1) * (mesh.slices + 1)
                 /\ Len(mesh.indices) = 6 * mesh.stacks * mesh.slices
        /\ mesh.gen = "terrain"
              => /\ VertexCount(mesh) = (mesh.width + 1) * (mesh.depth + 1)
                 /\ Len(mesh.indices) = 6 * mesh.width * mesh.depth

\* C14 witness: an ellipsoid of the largest slice and stack counts whose
\* largest index is that of its last vertex.
MeshIndicesValidReached ==
    /\ mesh.gen = "ellipsoid" /\ mesh.slices = MaxGrid /\ mesh.stacks = MaxGrid
    /\ MaxIndex(mesh) = VertexCount(mesh) - 1

====
